---- MODULE Spec2Model ----
(***************************************************************************)
(* Model of the NetworkManager block of i3status-rust                      *)
(* (src/src/blocks/networkmanager.rs).                                     *)
(*                                                                         *)
(* Two specifications share the variables:                                 *)
(*   Spec          the refresh path: NetworkManager::update reading the    *)
(*                 properties the remote service holds, while the service  *)
(*                 changes them;                                           *)
(*   ListenerSpec  construction (ConfigBlock::new) and the listener thread *)
(*                 it spawns, feeding the scheduler channel.               *)
(*                                                                         *)
(* Text is a sequence of tokens (characters, glyphs, numbers printed with  *)
(* ToString); string concatenation is \o.  A Result is a record            *)
(* [ok, val]; a u32 word is its four bytes, most significant first.        *)
(***************************************************************************)
EXTENDS Integers, Sequences, FiniteSets, TLC

VARIABLES
    cfg,          \* the block's configuration fields (primary_only, ip, ...)
    remote,       \* the properties the NetworkManager service holds
    changes,      \* options set away from their defaults + property changes of the service
    indicator,    \* self.indicator: [state, text]
    output,       \* self.output: sequence of widgets [state, text]
    connections,  \* the `connections` list built by the last update
    queried,      \* the properties the last update asked for
    seen,         \* the remote properties as they were at the last update
    result,       \* how the last update ended: "none", "ok", "panic"
    newResult,    \* what ConfigBlock::new returned: "none", "ok", "err"
    lpc,          \* position of the listener thread
    chan,         \* the scheduler channel: sequence of Task records
    nonEmpty,     \* non-empty events the listener has received
    timeouts,     \* Nothing events (wait timeouts) the listener has received
    wakes,        \* Task records the listener has sent
    delivered     \* Task records the scheduler has taken from the channel

refreshVars  == <<cfg, remote, changes, indicator, output, connections, queried, seen, result>>
listenerVars == <<newResult, lpc, chan, nonEmpty, timeouts, wakes, delivered>>
vars == <<cfg, remote, changes, indicator, output, connections, queried, seen, result,
          newResult, lpc, chan, nonEmpty, timeouts, wakes, delivered>>

(***************************************************************************)
(* Bounds.                                                                 *)
(***************************************************************************)
MaxChanges == 2     \* non-default options plus property changes of the service, per behaviour
MaxActive  == 2     \* length of the ActiveConnections reply
MaxEvents  == 8     \* events delivered to the listener in one behaviour
ChanCap    == 2     \* capacity of the scheduler channel

(***************************************************************************)
(* Results.                                                                *)
(***************************************************************************)
Ok(v)  == [ok |-> TRUE, val |-> v]
Err(v) == [ok |-> FALSE, val |-> v]    \* v: a value of the reply's type, unused

(***************************************************************************)
(* Code tables.                                                            *)
(***************************************************************************)
NetworkStateFrom(id) ==
    CASE id = 10 -> "Asleep"
      [] id = 20 -> "Disconnected"
      [] id = 30 -> "Disconnecting"
      [] id = 40 -> "Connecting"
      [] id = 50 -> "ConnectedLocal"
      [] id = 60 -> "ConnectedSite"
      [] id = 70 -> "ConnectedGlobal"
      [] OTHER   -> "Unknown"

ActiveConnectionStateFrom(id) ==
    CASE id = 1 -> "Activating"
      [] id = 2 -> "Activated"
      [] id = 3 -> "Deactivating"
      [] id = 4 -> "Deactivated"
      [] OTHER  -> "Unknown"

to_state(s, good) ==
    CASE s = "Activated"    -> good
      [] s = "Activating"   -> "Warning"
      [] s = "Deactivating" -> "Warning"
      [] s = "Deactivated"  -> "Critical"
      [] OTHER              -> "Critical"

DeviceTypeFrom(id) ==
    CASE id = 1  -> "Ethernet"
      [] id = 2  -> "Wifi"
      [] id = 8  -> "Modem"
      [] id = 13 -> "Bridge"
      [] id = 16 -> "TUN"
      [] id = 29 -> "Wireguard"
      [] OTHER   -> "Unknown"

\* Option<String>: Ok(name) is Some(name), Err("") is None
to_icon_name(t) ==
    CASE t = "Ethernet"  -> Ok("net_wired")
      [] t = "Wifi"      -> Ok("net_wireless")
      [] t = "Modem"     -> Ok("net_modem")
      [] t = "Bridge"    -> Ok("net_bridge")
      [] t = "TUN"       -> Ok("net_bridge")
      [] t = "Wireguard" -> Ok("net_vpn")
      [] OTHER           -> Err("")

(***************************************************************************)
(* Address codec.                                                          *)
(***************************************************************************)
\* u32::swap: the four bytes reversed
swap(w) == <<w[4], w[3], w[2], w[1]>>

U32Value(w) == ((w[1] * 256 + w[2]) * 256 + w[3]) * 256 + w[4]

\* From<Array<u32>> for Ipv4Address: three i.next().unwrap(); a missing word panics
Ipv4AddressFrom(s) ==
    IF Len(s) < 3
    THEN [panic |-> TRUE,  address |-> <<0, 0, 0, 0>>, prefix |-> 0, gateway |-> <<0, 0, 0, 0>>]
    ELSE [panic |-> FALSE, address |-> swap(s[1]), prefix |-> U32Value(s[2]),
          gateway |-> swap(s[3])]

\* Display for Ipv4Address: "{address}/{prefix}", the address as a dotted quad
Ipv4Display(a) ==
    <<ToString(a.address[1]), ".", ToString(a.address[2]), ".",
      ToString(a.address[3]), ".", ToString(a.address[4]), "/", ToString(a.prefix)>>

(***************************************************************************)
(* The remote service: object paths and the replies a property can give.   *)
(***************************************************************************)
RootPath  == "/"
ConnPaths == {"/c1", "/c2"}
DevPaths  == {"/d1", "/d2"}
Ip4Of(c)  == "/ip4" \o c       \* the Ip4Config object of connection c
ApOf(d)   == "/ap" \o d        \* the access point of device d

RECURSIVE SeqsUpTo(_, _)
SeqsUpTo(S, n) ==
    IF n = 0 THEN {<<>>}
    ELSE LET shorter == SeqsUpTo(S, n - 1)
         IN  shorter \cup {Append(q, x) : q \in shorter, x \in S}

StateCodes     == {0, 10, 20, 30, 40, 50, 60, 70, 80}
ConnStateCodes == 0 .. 5
DevTypeCodes   == {0, 1, 2, 29}

\* u32 words of the Addresses property, as their bytes (most significant first):
\* the address and gateway hold network-order bytes read as a host-order word
AddrA     == <<<<10, 1, 168, 192>>, <<0, 0, 0, 24>>, <<1, 1, 168, 192>>>>  \* 192.168.1.10/24
AddrB     == <<<<2, 0, 0, 10>>, <<0, 0, 0, 8>>, <<0, 0, 0, 0>>>>           \* 10.0.0.2/8
AddrShort == <<<<10, 1, 168, 192>>, <<0, 0, 0, 24>>>>                      \* two words only
AddrLists == {<<>>, <<AddrA>>, <<AddrB>>, <<AddrA, AddrB>>, <<AddrShort>>, <<AddrA, AddrShort>>}

\* SSID payloads (raw bytes): "ab", "\u{e9}a" (two-byte character first), "a\u{e9}",
\* and a byte sequence that is not UTF-8
SsidBytes == {<<97, 98>>, <<195, 169, 97>>, <<97, 195, 169>>, <<255>>}

StateReplies    == {Err(0)} \cup {Ok(c) : c \in StateCodes}
PrimaryReplies  == {Err("")} \cup {Ok(p) : p \in ConnPaths \cup {RootPath}}
ActiveReplies   == {Err(<<>>)} \cup {Ok(q) : q \in SeqsUpTo(ConnPaths, MaxActive)}
ConnStateReplies == {Err(0)} \cup {Ok(c) : c \in ConnStateCodes}
DevicesReplies  == {Err(<<>>)} \cup {Ok(q) : q \in {<<>>, <<"/d1">>, <<"/d2">>, <<"/d1", "/d2">>}}
AddressReplies  == {Err(<<>>)} \cup {Ok(l) : l \in AddrLists}
DevTypeReplies  == {Err(0)} \cup {Ok(c) : c \in DevTypeCodes}
SsidReplies     == {Err(<<>>)} \cup {Ok(b) : b \in SsidBytes}
Ip4ConfigReplies(c) == {Err(""), Ok(Ip4Of(c))}
ApReplies(d)        == {Err(""), Ok(ApOf(d))}

\* the properties of the connection object at a path; a Get on a path
\* with no such object fails
conn_object(w, path) ==
    IF path \in DOMAIN w.conn THEN w.conn[path]
    ELSE [state |-> Err(0), devices |-> Err(<<>>), ip4config |-> Err("")]

(***************************************************************************)
(* Remote object facades: each takes the reply of its one round trip.      *)
(***************************************************************************)
\* ConnectionManager::state
state(r) == IF r.ok THEN Ok(NetworkStateFrom(r.val)) ELSE Err("Unknown")

\* a plausible slip: the root path taken as a connection
primary_connection_no_sentinel(r) == IF ~r.ok THEN Err("") ELSE Ok(r.val)

\* ConnectionManager::primary_connection
primary_connection(r) ==
    IF ~r.ok THEN Err("")
    ELSE IF r.val = RootPath THEN Err("")      \* "No primary connection"
    ELSE Ok(r.val)

\* ConnectionManager::active_connections
active_connections(r) == IF r.ok THEN Ok(r.val) ELSE Err(<<>>)

\* NmConnection::state
conn_state(r) == IF r.ok THEN Ok(ActiveConnectionStateFrom(r.val)) ELSE Err("Unknown")

\* NmConnection::devices
devices(r) == IF r.ok THEN Ok(r.val) ELSE Err(<<>>)

\* NmConnection::ip4config
ip4config(r) == IF r.ok THEN Ok(r.val) ELSE Err("")

\* NmDevice::device_type
device_type(r) == IF r.ok THEN Ok(DeviceTypeFrom(r.val)) ELSE Err("Unknown")

\* NmDevice::active_access_point
active_access_point(r) == IF r.ok THEN Ok(r.val) ELSE Err("")

\* std::str::from_utf8 on the SSID bytes: a String is its characters, each with
\* its code point and its length in bytes.  One- and two-byte encodings.
RECURSIVE Utf8Decode(_)
Utf8Decode(b) ==
    IF b = <<>> THEN Ok(<<>>)
    ELSE IF b[1] < 128
    THEN LET rest == Utf8Decode(Tail(b))
         IN  IF rest.ok THEN Ok(<<[cp |-> b[1], len |-> 1]>> \o rest.val) ELSE Err(<<>>)
    ELSE IF b[1] >= 194 /\ b[1] <= 223 /\ Len(b) >= 2 /\ b[2] >= 128 /\ b[2] <= 191
    THEN LET rest == Utf8Decode(Tail(Tail(b)))
         IN  IF rest.ok
             THEN Ok(<<[cp |-> (b[1] - 192) * 64 + (b[2] - 128), len |-> 2]>> \o rest.val)
             ELSE Err(<<>>)
    ELSE Err(<<>>)

\* NmAccessPoint::ssid
ssid(r) == IF r.ok THEN Utf8Decode(r.val) ELSE Err(<<>>)

\* NmIp4Config::addresses: every entry goes through Ipv4Address::from
addresses(r) ==
    IF ~r.ok THEN [panic |-> FALSE, ok |-> FALSE, val |-> <<>>]
    ELSE LET decoded == [i \in 1 .. Len(r.val) |-> Ipv4AddressFrom(r.val[i])]
         IN  IF \E i \in 1 .. Len(r.val) : decoded[i].panic
             THEN [panic |-> TRUE, ok |-> FALSE, val |-> <<>>]
             ELSE [panic |-> FALSE, ok |-> TRUE, val |-> decoded]

(***************************************************************************)
(* Text assembly.                                                          *)
(***************************************************************************)
DisconnectGlyph == "U+00D7"     \* the multiplication sign of lines 423, 424 and 502
ErrorGlyph      == "E"

\* config.icons.get(name): the theme's glyph for an icon name
Icon(name) == <<"icon:" \o name>>

RECURSIVE ByteLen(_)
ByteLen(chars) == IF chars = <<>> THEN 0 ELSE chars[1].len + ByteLen(Tail(chars))

\* String::truncate(new_len), new_len in bytes: no-op beyond the end, a panic
\* when new_len is not on a character boundary
truncate(chars, new_len) ==
    IF new_len > ByteLen(chars) THEN [panic |-> FALSE, val |-> chars]
    ELSE IF \E k \in 0 .. Len(chars) : ByteLen(SubSeq(chars, 1, k)) = new_len
    THEN LET k == CHOOSE k \in 0 .. Len(chars) : ByteLen(SubSeq(chars, 1, k)) = new_len
         IN  [panic |-> FALSE, val |-> SubSeq(chars, 1, k)]
    ELSE [panic |-> TRUE, val |-> <<>>]

\* the characters of a String as tokens of text
CharTokens(chars) == [i \in 1 .. Len(chars) |-> "U+" \o ToString(chars[i].cp)]

\* Vec<String>::join(sep)
RECURSIVE join(_, _)
join(parts, sep) ==
    IF parts = <<>> THEN <<>>
    ELSE IF Len(parts) = 1 THEN parts[1]
    ELSE parts[1] \o <<sep>> \o join(Tail(parts), sep)

(***************************************************************************)
(* NetworkManager::update, lines 466-497: one device of a connection.      *)
(* w is the remote service's properties, c the configuration.              *)
(***************************************************************************)
iconstr(w, c, d) ==
    LET dev_type == device_type(w.dev[d].type)
    IN  IF dev_type.ok
        THEN LET icon_name == to_icon_name(dev_type.val)
             IN  IF icon_name.ok THEN Icon(icon_name.val)
                 ELSE IF c.unknown_device_icon THEN Icon("unknown")
                 ELSE <<dev_type.val>>            \* format!("{:?}", dev_type)
        ELSE <<>>

ssidstr(w, c, d) ==
    IF ~c.ssid THEN [panic |-> FALSE, val |-> <<>>, asked |-> {}]
    ELSE LET ap == active_access_point(w.dev[d].ap)
         IN  IF ~ap.ok THEN [panic |-> FALSE, val |-> <<>>, asked |-> {"ActiveAccessPoint"}]
             ELSE LET name == ssid(w.ssid[d])
                  IN  IF ~name.ok
                      THEN [panic |-> FALSE, val |-> <<>>, asked |-> {"ActiveAccessPoint", "Ssid"}]
                      ELSE LET truncated == truncate(name.val, c.max_ssid_width)
                           IN  [panic |-> truncated.panic,
                                val   |-> IF truncated.panic THEN <<>>
                                          ELSE CharTokens(truncated.val) \o <<" ">>,
                                asked |-> {"ActiveAccessPoint", "Ssid"}]

\* the loop over the devices: devicevec, or a panic inside it
RECURSIVE devicevec(_, _, _)
devicevec(w, c, devs) ==
    IF devs = <<>> THEN [panic |-> FALSE, val |-> <<>>, asked |-> {}]
    ELSE LET s    == ssidstr(w, c, devs[1])
             rest == devicevec(w, c, Tail(devs))
             here == {"DeviceType"} \cup s.asked
         IN  IF s.panic THEN [panic |-> TRUE, val |-> <<>>, asked |-> here]
             ELSE [panic |-> rest.panic,
                   val   |-> IF rest.panic THEN <<>>
                             ELSE <<iconstr(w, c, devs[1]) \o s.val>> \o rest.val,
                   asked |-> here \cup rest.asked]

\* lines 500-513: the IP text of a connection
iptext(w, c, conn) ==
    IF ~c.ip THEN [panic |-> FALSE, val |-> <<>>, asked |-> {}]
    ELSE LET cfg4 == ip4config(conn_object(w, conn).ip4config)
         IN  IF ~cfg4.ok THEN [panic |-> FALSE, val |-> <<DisconnectGlyph>>, asked |-> {"Ip4Config"}]
             ELSE LET addrs == addresses(w.addresses[conn])
                  IN  [panic |-> addrs.panic,
                       val   |-> IF addrs.ok /\ Len(addrs.val) > 0
                                 THEN join([i \in 1 .. Len(addrs.val) |-> Ipv4Display(addrs.val[i])], ",")
                                 ELSE <<DisconnectGlyph>>,
                       asked |-> {"Ip4Config", "Addresses"}]

\* lines 456-518: the widget of one connection
widget(w, c, good_state, conn) ==
    LET cs   == conn_state(conn_object(w, conn).state)
        st   == IF cs.ok THEN to_state(cs.val, good_state)
                ELSE to_state("Unknown", good_state)
        devs == devices(conn_object(w, conn).devices)
        dv   == IF devs.ok THEN devicevec(w, c, devs.val)
                ELSE [panic |-> FALSE, val |-> <<>>, asked |-> {}]
        ip   == IF dv.panic THEN [panic |-> FALSE, val |-> <<>>, asked |-> {}]
                ELSE iptext(w, c, conn)
    IN  [panic |-> dv.panic \/ ip.panic,
         val   |-> [state |-> st, text |-> join(dv.val, " ") \o ip.val],
         asked |-> {"ConnState", "Devices"} \cup dv.asked \cup ip.asked]

\* connections.into_iter().map(..).collect(): in order, up to the first panic
RECURSIVE widgets(_, _, _, _)
widgets(w, c, good_state, conns) ==
    IF conns = <<>> THEN [panic |-> FALSE, val |-> <<>>, asked |-> {}]
    ELSE LET first == widget(w, c, good_state, conns[1])
             rest  == widgets(w, c, good_state, Tail(conns))
         IN  IF first.panic THEN [panic |-> TRUE, val |-> <<>>, asked |-> first.asked]
             ELSE [panic |-> rest.panic,
                   val   |-> IF rest.panic THEN <<>> ELSE <<first.val>> \o rest.val,
                   asked |-> first.asked \cup rest.asked]

(***************************************************************************)
(* NetworkManager::update, lines 412-452: indicator and connection list.   *)
(***************************************************************************)
indicator_state(st) ==
    CASE st.ok /\ st.val = "ConnectedGlobal" -> "Good"
      [] st.ok /\ st.val = "ConnectedSite"   -> "Info"
      [] st.ok /\ st.val = "ConnectedLocal"  -> "Idle"
      [] st.ok /\ st.val = "Connecting"      -> "Warning"
      [] st.ok /\ st.val = "Disconnecting"   -> "Warning"
      [] OTHER                               -> "Critical"

indicator_text(st) ==
    CASE st.ok /\ st.val = "Disconnected" -> <<DisconnectGlyph>>
      [] st.ok /\ st.val = "Asleep"       -> <<DisconnectGlyph>>
      [] st.ok /\ st.val = "Unknown"      -> <<ErrorGlyph>>
      [] OTHER                            -> <<>>

\* a plausible slip: only Unknown takes the first arm
short_circuit_unknown_only(st) == st.ok /\ st.val = "Unknown"

\* the first arm of the match of line 429: only a state that was read
short_circuit(st) == st.ok /\ st.val \in {"Disconnected", "Asleep", "Unknown"}

good_state(st) ==
    CASE st.ok /\ st.val = "ConnectedGlobal" -> "Good"
      [] st.ok /\ st.val = "ConnectedSite"   -> "Info"
      [] OTHER                               -> "Idle"

\* a plausible slip: the active list chained without the filter
merge_no_filter(conn, active) == <<conn>> \o active

\* line 449: the primary connection, then the active ones with another path
merge(conn, active) == <<conn>> \o SelectSeq(active, LAMBDA x : x # conn)

\* lines 440-452
connection_list(w, c) ==
    LET primary == primary_connection(w.primary)
    IN  IF c.primary_only
        THEN [val   |-> IF primary.ok THEN <<primary.val>> ELSE <<>>,
              asked |-> {"PrimaryConnection"}]
        ELSE LET act    == active_connections(w.active)
                 active == IF act.ok THEN act.val ELSE <<>>
             IN  [val   |-> IF primary.ok THEN merge(primary.val, active) ELSE active,
                  asked |-> {"ActiveConnections", "PrimaryConnection"}]

\* the whole of update: what it leaves in the block and what it asked for
refresh(w, c) ==
    LET st == state(w.state)
    IN  IF short_circuit(st)
        THEN [panic |-> FALSE, indicator |-> [state |-> indicator_state(st), text |-> indicator_text(st)],
              output |-> <<>>, connections |-> <<>>, asked |-> {"State"}]
        ELSE LET conns == connection_list(w, c)
                 ws    == widgets(w, c, good_state(st), conns.val)
             IN  [panic |-> ws.panic,
                  indicator |-> [state |-> indicator_state(st), text |-> indicator_text(st)],
                  output |-> ws.val, connections |-> conns.val,
                  asked |-> {"State"} \cup conns.asked \cup ws.asked]

\* Block::view: the indicator alone when there is no widget
view == IF Len(output) = 0 THEN <<indicator>> ELSE output

(***************************************************************************)
(* The refresh specification.                                              *)
(***************************************************************************)
\* NetworkManagerConfig's defaults (lines 331-353)
DefaultConfig ==
    [primary_only |-> FALSE, unknown_device_icon |-> FALSE, ip |-> TRUE, ssid |-> TRUE,
     max_ssid_width |-> 21]

Configs ==
    [primary_only : BOOLEAN, unknown_device_icon : BOOLEAN, ip : BOOLEAN, ssid : BOOLEAN,
     max_ssid_width : {1, 2, 21}]

\* the number of options a configuration sets away from their defaults
Departures(c) == Cardinality({f \in DOMAIN c : c[f] # DefaultConfig[f]})

\* a connected machine: wired primary connection, wireless second connection
BaseRemote ==
    [state     |-> Ok(70),
     primary   |-> Ok("/c1"),
     active    |-> Ok(<<"/c1", "/c2">>),
     conn      |-> [c \in ConnPaths |->
                      [state     |-> Ok(2),
                       devices   |-> Ok(IF c = "/c1" THEN <<"/d1">> ELSE <<"/d2">>),
                       ip4config |-> Ok(Ip4Of(c))]],
     addresses |-> [c \in ConnPaths |-> Ok(IF c = "/c1" THEN <<AddrA>> ELSE <<AddrB>>)],
     dev       |-> [d \in DevPaths |->
                      [type |-> Ok(IF d = "/d1" THEN 1 ELSE 2),
                       ap   |-> IF d = "/d1" THEN Err("") ELSE Ok(ApOf(d))]],
     ssid      |-> [d \in DevPaths |-> IF d = "/d1" THEN Err(<<>>) ELSE Ok(<<97, 98>>)]]

ListenerIdle ==
    /\ newResult = "ok" /\ lpc = "wait" /\ chan = <<>>
    /\ nonEmpty = 0 /\ timeouts = 0 /\ wakes = 0 /\ delivered = 0

\* the block as ConfigBlock::new returns it (lines 389-402)
Init ==
    /\ cfg \in {c \in Configs : Departures(c) <= MaxChanges}
    /\ remote = BaseRemote
    /\ changes = Departures(cfg)
    /\ indicator = [state |-> "Idle", text |-> <<>>]
    /\ output = <<>>
    /\ connections = <<>>
    /\ queried = {}
    /\ seen = BaseRemote
    /\ result = "none"
    /\ ListenerIdle

\* the service changes one property
RemoteChange ==
    /\ changes < MaxChanges
    /\ result # "panic"
    /\ changes' = changes + 1
    /\ \/ \E v \in StateReplies : remote' = [remote EXCEPT !.state = v]
       \/ \E v \in PrimaryReplies : remote' = [remote EXCEPT !.primary = v]
       \/ \E v \in ActiveReplies : remote' = [remote EXCEPT !.active = v]
       \/ \E c \in ConnPaths, v \in ConnStateReplies : remote' = [remote EXCEPT !.conn[c].state = v]
       \/ \E c \in ConnPaths, v \in DevicesReplies : remote' = [remote EXCEPT !.conn[c].devices = v]
       \/ \E c \in ConnPaths : \E v \in Ip4ConfigReplies(c) : remote' = [remote EXCEPT !.conn[c].ip4config = v]
       \/ \E c \in ConnPaths, v \in AddressReplies : remote' = [remote EXCEPT !.addresses[c] = v]
       \/ \E d \in DevPaths, v \in DevTypeReplies : remote' = [remote EXCEPT !.dev[d].type = v]
       \/ \E d \in DevPaths : \E v \in ApReplies(d) : remote' = [remote EXCEPT !.dev[d].ap = v]
       \/ \E d \in DevPaths, v \in SsidReplies : remote' = [remote EXCEPT !.ssid[d] = v]
    /\ remote' # remote
    /\ UNCHANGED <<cfg, indicator, output, connections, queried, seen, result>>
    /\ UNCHANGED listenerVars

\* NetworkManager::update; a panic unwinds before self.output is assigned
Update ==
    /\ result # "panic"
    /\ \E r \in {refresh(remote, cfg)} :
           /\ indicator' = r.indicator
           /\ output' = IF r.panic THEN output ELSE r.output
           /\ connections' = r.connections
           /\ queried' = r.asked
           /\ result' = IF r.panic THEN "panic" ELSE "ok"
    /\ seen' = remote
    /\ UNCHANGED <<cfg, remote, changes>>
    /\ UNCHANGED listenerVars

Next == RemoteChange \/ Update

Spec == Init /\ [][Next]_vars

(***************************************************************************)
(* Construction and the listener thread (ConfigBlock::new, lines 359-403). *)
(***************************************************************************)
BlockId == "id"          \* the Uuid of line 360, cloned into the thread as id_copy

\* ConnectionItem: Nothing is what the iterator yields when the wait of
\* `timeout` (line 375) expires with no message
ConnectionItems == {"Nothing", "MethodCall", "Signal", "MethodReturn"}

RefreshIdle ==
    /\ cfg = DefaultConfig /\ remote = BaseRemote /\ changes = 0
    /\ indicator = [state |-> "Idle", text |-> <<>>]
    /\ output = <<>> /\ connections = <<>> /\ queried = {} /\ seen = BaseRemote
    /\ result = "none"

\* before ConfigBlock::new is called
ListenerInit ==
    /\ RefreshIdle
    /\ newResult = "none" /\ lpc = "notspawned" /\ chan = <<>>
    /\ nonEmpty = 0 /\ timeouts = 0 /\ wakes = 0 /\ delivered = 0

\* ConfigBlock::new: the query connection (line 362, `?`), thread::spawn, Ok(..)
New ==
    /\ newResult = "none"
    /\ \E connected \in BOOLEAN :
         IF connected
         THEN newResult' = "ok" /\ lpc' = "connect"
         ELSE newResult' = "err" /\ lpc' = lpc
    /\ UNCHANGED <<chan, nonEmpty, timeouts, wakes, delivered>>
    /\ UNCHANGED refreshVars

\* line 366: Connection::get_private(..).unwrap() in the thread
ListenerConnect ==
    /\ lpc = "connect"
    /\ \E connected \in BOOLEAN : lpc' = IF connected THEN "subscribe" ELSE "panicked"
    /\ UNCHANGED <<newResult, chan, nonEmpty, timeouts, wakes, delivered>>
    /\ UNCHANGED refreshVars

\* line 372: c.add_match(&rule).unwrap()
ListenerSubscribe ==
    /\ lpc = "subscribe"
    /\ \E matched \in BOOLEAN : lpc' = IF matched THEN "wait" ELSE "panicked"
    /\ UNCHANGED <<newResult, chan, nonEmpty, timeouts, wakes, delivered>>
    /\ UNCHANGED refreshVars

\* a plausible slip: every event, Nothing included, sends a Task
on_event_keepalive(event) ==
    /\ IF event = "Nothing"
       THEN timeouts' = timeouts + 1 /\ UNCHANGED nonEmpty
       ELSE nonEmpty' = nonEmpty + 1 /\ UNCHANGED timeouts
    /\ lpc' = "send"

\* the match of lines 378-384 on the event the iterator yields
on_event(event) ==
    IF event = "Nothing"
    THEN /\ timeouts' = timeouts + 1
         /\ UNCHANGED <<lpc, nonEmpty>>
    ELSE /\ nonEmpty' = nonEmpty + 1
         /\ lpc' = "send"
         /\ UNCHANGED timeouts

\* lines 377-384: the next event of c.iter(timeout)
ListenerEvent ==
    /\ lpc = "wait"
    /\ nonEmpty + timeouts < MaxEvents
    /\ \E event \in ConnectionItems : on_event(event)
    /\ UNCHANGED <<newResult, chan, wakes, delivered>>
    /\ UNCHANGED refreshVars

\* a plausible slip: a non-blocking send that gives up when the channel is full
send_task_drop ==
    /\ IF Len(chan) < ChanCap
       THEN chan' = Append(chan, [id |-> BlockId]) /\ wakes' = wakes + 1
       ELSE UNCHANGED <<chan, wakes>>
    /\ lpc' = "wait"

\* lines 380-383: send.send(Task {..}) returns once the channel has taken the record
send_task ==
    /\ Len(chan) < ChanCap
    /\ chan' = Append(chan, [id |-> BlockId])
    /\ wakes' = wakes + 1
    /\ lpc' = "wait"

ListenerSend ==
    /\ lpc = "send"
    /\ send_task
    /\ UNCHANGED <<newResult, nonEmpty, timeouts, delivered>>
    /\ UNCHANGED refreshVars

\* the host scheduler takes a record from the channel
SchedulerRecv ==
    /\ chan # <<>>
    /\ chan' = Tail(chan)
    /\ delivered' = delivered + 1
    /\ UNCHANGED <<newResult, lpc, nonEmpty, timeouts, wakes>>
    /\ UNCHANGED refreshVars

ListenerNext ==
    New \/ ListenerConnect \/ ListenerSubscribe \/ ListenerEvent \/ ListenerSend \/ SchedulerRecv

ListenerSpec == ListenerInit /\ [][ListenerNext]_vars

(***************************************************************************)
(* Properties of the refresh (checked under Spec).                         *)
(* `seen` holds the replies the last update read; result # "none" says an  *)
(* update has run.                                                         *)
(***************************************************************************)
DocumentedStates == {10, 20, 30, 40, 50, 60, 70}

Refreshed == result # "none"

\* the overall-state query of the last update succeeded with Disconnected,
\* Asleep or a code that maps to Unknown
ReadDown == seen.state.ok /\ seen.state.val \notin {30, 40, 50, 60, 70}

\* the primary connection of the last update resolved
PrimaryResolved == seen.primary.ok /\ seen.primary.val # RootPath

RECURSIVE Without(_, _)
Without(q, p) ==
    IF q = <<>> THEN <<>>
    ELSE IF q[1] = p THEN Without(Tail(q), p)
    ELSE <<q[1]>> \o Without(Tail(q), p)

Occurrences(q, p) == Cardinality({i \in 1 .. Len(q) : q[i] = p})

\* C1: after a refresh whose overall-state query succeeds with Disconnected,
\* Asleep or Unknown (any code other than 10..70 in tens), the widget list is
\* empty, the indicator is Critical with the disconnect glyph (Disconnected,
\* Asleep) or the error glyph (Unknown), and the state query is the only query
\* issued, whatever the remote side holds.
C1_ShortCircuit ==
    (Refreshed /\ ReadDown) =>
        /\ result = "ok"
        /\ output = <<>>
        /\ indicator.state = "Critical"
        /\ indicator.text = IF seen.state.val \in {10, 20} THEN <<DisconnectGlyph>>
                            ELSE <<ErrorGlyph>>
        /\ queried = {"State"}

\* a refresh read Asleep while the connection data was not the reference data
C1_Witness ==
    /\ Refreshed /\ seen.state = Ok(10)
    /\ seen.active # BaseRemote.active
    /\ output = <<>> /\ queried = {"State"}

\* what C2 expects of the widget of connection p, given the replies read
C2_Severity(p) ==
    LET r == conn_object(seen, p).state
    IN  IF ~r.ok \/ r.val \notin 1 .. 4 \/ r.val = 4 THEN "Critical"
        ELSE IF r.val = 2 THEN good_state(state(seen.state))
        ELSE "Warning"

C2_IpFails(p) ==
    \/ ~conn_object(seen, p).ip4config.ok
    \/ ~seen.addresses[p].ok
    \/ \E i \in 1 .. Len(seen.addresses[p].val) : Len(seen.addresses[p].val[i]) < 3

\* C2: in a refresh whose overall state is not Disconnected/Asleep/Unknown there
\* is one widget per connection of the connection list, in order, whatever
\* per-connection and per-device queries fail; a failed query degrades its own
\* field only (activation state: Critical; device list: empty device text;
\* ip4config or address list: the placeholder glyph) and update returns success.
C2_PartialOutput ==
    (Refreshed /\ ~ReadDown) =>
        /\ result = "ok"
        /\ Len(output) = Len(connections)
        /\ \A i \in 1 .. Len(output) :
             LET p == connections[i]
             IN  /\ output[i].state = C2_Severity(p)
                 /\ (cfg.ip /\ C2_IpFails(p)) =>
                        /\ output[i].text # <<>>
                        /\ output[i].text[Len(output[i].text)] = DisconnectGlyph
                 /\ (cfg.ip /\ ~conn_object(seen, p).devices.ok /\ C2_IpFails(p)) =>
                        output[i].text = <<DisconnectGlyph>>
                 /\ (~cfg.ip /\ ~conn_object(seen, p).devices.ok) => output[i].text = <<>>

\* C3: a refresh whose overall-state query fails gives what a refresh reading
\* Unknown gives: Critical indicator, the error glyph, no widget, and no query
\* beyond the state query.
C3_FailureIsUnknown ==
    (Refreshed /\ ~seen.state.ok) =>
        /\ indicator.state = "Critical"
        /\ indicator.text = <<ErrorGlyph>>
        /\ output = <<>>
        /\ queried = {"State"}

C5_ActiveFailure ==
    (Refreshed /\ ~ReadDown /\ ~cfg.primary_only /\ PrimaryResolved /\ ~seen.active.ok) =>
        /\ connections = <<seen.primary.val>>
        /\ Len(output) = 1
        /\ result = "ok"

\* the last update was given an address entry of fewer than three words
C9_ShortEntryRead ==
    /\ Refreshed /\ cfg.ip /\ "Addresses" \in queried
    /\ \E i \in 1 .. Len(connections) :
         LET p == connections[i]
         IN  /\ conn_object(seen, p).ip4config.ok
             /\ seen.addresses[p].ok
             /\ \E k \in 1 .. Len(seen.addresses[p].val) : Len(seen.addresses[p].val[k]) < 3
             /\ \A j \in 1 .. i - 1 :
                  ~(seen.addresses[connections[j]].ok
                    /\ \E k \in 1 .. Len(seen.addresses[connections[j]].val) :
                         Len(seen.addresses[connections[j]].val[k]) < 3)

\* C9: an address entry of fewer than three words is a decode failure held as
\* an error value: the refresh completes, update returns success and that
\* connection's IP text is the placeholder glyph.
C9_ShortEntryDegrades ==
    C9_ShortEntryRead =>
        /\ result = "ok"
        /\ Len(output) = Len(connections)
        /\ \A i \in 1 .. Len(output) :
             (\E k \in 1 .. Len(seen.addresses[connections[i]].val) :
                 Len(seen.addresses[connections[i]].val[k]) < 3)
             => output[i].text[Len(output[i].text)] = DisconnectGlyph

\* C10: a primary-connection reply of "/" is the "No primary connection" error:
\* no connection of the list has path "/"; with primary_only the list is empty,
\* without it the list is the active list alone, in its order.
C10_RootIsNoPrimary ==
    (Refreshed /\ ~ReadDown /\ seen.primary = Ok(RootPath)) =>
        /\ \A i \in 1 .. Len(connections) : connections[i] # RootPath
        /\ result = "ok" => Len(output) = Len(connections)
        /\ connections = IF cfg.primary_only THEN <<>>
                         ELSE IF seen.active.ok THEN seen.active.val ELSE <<>>

\* the reply was "/", primary_only is off, and the active connections got widgets
C10_Witness ==
    /\ Refreshed /\ ~ReadDown /\ seen.primary = Ok(RootPath) /\ ~cfg.primary_only
    /\ connections = <<"/c1", "/c2">>
    /\ Len(output) = 2 /\ result = "ok"

\* what C11 expects for device d: the first min(characters, max_ssid_width)
\* characters of the SSID and one space; no SSID text where there is no SSID
C11_SsidText(d) ==
    LET ap   == seen.dev[d].ap
        name == ssid(seen.ssid[d])
    IN  IF cfg.ssid /\ ap.ok /\ name.ok
        THEN LET n == IF Len(name.val) < cfg.max_ssid_width THEN Len(name.val)
                      ELSE cfg.max_ssid_width
             IN  CharTokens(SubSeq(name.val, 1, n)) \o <<" ">>
        ELSE <<>>

C11_DeviceText(devs) ==
    join([k \in 1 .. Len(devs) |-> iconstr(seen, cfg, devs[k]) \o C11_SsidText(devs[k])], " ")

\* the last update read the SSID of a device of a listed connection
C11_SsidRead ==
    /\ Refreshed /\ ~ReadDown /\ cfg.ssid /\ "Ssid" \in queried
    /\ \E i \in 1 .. Len(connections) :
         LET devs == conn_object(seen, connections[i]).devices
         IN  devs.ok /\ \E k \in 1 .. Len(devs.val) :
                 seen.dev[devs.val[k]].ap.ok /\ ssid(seen.ssid[devs.val[k]]).ok

\* C11: with SSID display enabled, the SSID text of a device is the first
\* min(length in characters, max_ssid_width) characters of the SSID and one
\* space, for SSIDs with multi-byte characters too, and the refresh completes.
C11_SsidTruncatedByChars ==
    C11_SsidRead =>
        /\ result = "ok"
        /\ Len(output) = Len(connections)
        /\ \A i \in 1 .. Len(output) :
             LET devs == conn_object(seen, connections[i]).devices
                 want == IF devs.ok THEN C11_DeviceText(devs.val) ELSE <<>>
             IN  /\ Len(output[i].text) >= Len(want)
                 /\ SubSeq(output[i].text, 1, Len(want)) = want

(***************************************************************************)
(* Properties of construction and the listener (checked under ListenerSpec)*)
(***************************************************************************)
Listening == lpc \in {"wait", "send"}

Pending == IF lpc = "send" THEN 1 ELSE 0

C6_WakesMatch ==
    Listening =>
        /\ wakes = nonEmpty - Pending
        /\ wakes = Len(chan) + delivered
        /\ Len(chan) <= ChanCap
        /\ \A i \in 1 .. Len(chan) : chan[i].id = BlockId

C6_Stays == Listening => Listening'

\* C6: once the listener has subscribed, every non-empty event sends exactly one
\* Task with this block's id and a Nothing event sends none; the send may wait
\* for room in the channel but nothing is dropped or duplicated: the Tasks sent
\* are the non-empty events whose handling has completed, each is in the
\* channel or with the scheduler, and the listener never leaves its loop.
C6_ListenerWakes == [](C6_WakesMatch) /\ [][C6_Stays]_vars

\* the listener waited for room, and all its Tasks went through
C6_Witness ==
    /\ lpc = "wait" /\ nonEmpty >= ChanCap + 1 /\ wakes = nonEmpty /\ timeouts >= 1
    /\ delivered >= 1 /\ Len(chan) = ChanCap

C8_NewFailsWithListener ==
    newResult = "ok" => lpc # "panicked"

====
